---- MODULE Spec2Model ----
(***************************************************************************)
(* Model of the marketplace backend: the persisted server (src/server.js,  *)
(* lines 1-429) and the in-memory server (src/unnamed/part_000).  One      *)
(* process of one of the two variants serves one request at a time; each   *)
(* request handler is one action.  A restart ends the process and boots a  *)
(* new one of the same variant over the same data directory.               *)
(***************************************************************************)
EXTENDS Integers, Sequences, FiniteSets, Bags, TLC

(***************************************************************************)
(* Bounds.                                                                 *)
(***************************************************************************)
\* Records ever created in one behaviour, over the four id-bearing types.
MaxRecords == 2

\* Things ever created in one behaviour: records, users and session tokens.
MaxWork == 3

(***************************************************************************)
(* JavaScript values.  A string is a sequence of symbols; a key that is    *)
(* absent from an object reads as Undef.                                   *)
(***************************************************************************)
Undef == [t |-> "undefined"]
Null == [t |-> "null"]
NaN == [t |-> "NaN"]
Num(n) == [t |-> "number", n |-> n]
Str(s) == [t |-> "string", s |-> s]

\* ToBoolean, as used by !x, x || y and if (x)
Truthy(v) ==
  CASE v.t = "undefined" -> FALSE
    [] v.t = "null" -> FALSE
    [] v.t = "NaN" -> FALSE
    [] v.t = "number" -> v.n # 0
    [] v.t = "string" -> v.s # << >>
    [] OTHER -> TRUE

\* x || y
OrElse(x, y) == IF Truthy(x) THEN x ELSE y

\* typeof x !== 'undefined' ? x : y
DefinedOr(x, y) == IF x.t # "undefined" THEN x ELSE y

ToLowerChar(c) ==
  CASE c = "A" -> "a"
    [] c = "B" -> "b"
    [] c = "C" -> "c"
    [] c = "H" -> "h"
    [] c = "O" -> "o"
    [] c = "T" -> "t"
    [] OTHER -> c

\* String.prototype.toLowerCase on a sequence of symbols
ToLowerCase(s) == [i \in 1..Len(s) |-> ToLowerChar(s[i])]

\* String.prototype.includes
Includes(s, sub) ==
  \E i \in 0..(Len(s) - Len(sub)) : SubSeq(s, i + 1, i + Len(sub)) = sub

Digits == <<"0", "1", "2", "3", "4", "5", "6", "7", "8", "9">>

IsDigit(c) == \E d \in 1..10 : Digits[d] = c

DigitVal(c) == (CHOOSE d \in 1..10 : Digits[d] = c) - 1

\* length of the longest prefix of s made of digits
RECURSIVE DigitPrefixLen(_)
DigitPrefixLen(s) ==
  IF s = << >> \/ ~IsDigit(Head(s)) THEN 0 ELSE 1 + DigitPrefixLen(Tail(s))

\* value of a sequence of digits
RECURSIVE DigitsVal(_)
DigitsVal(s) ==
  IF s = << >> THEN 0
  ELSE 10 * DigitsVal(SubSeq(s, 1, Len(s) - 1)) + DigitVal(s[Len(s)])

\* parseInt(s, 10) and parseFloat(s) on strings of digits and letters: the
\* longest numeric prefix is converted, the rest is ignored; NaN without one.
ParseInt(s) ==
  IF DigitPrefixLen(s) = 0 THEN NaN
  ELSE Num(DigitsVal(SubSeq(s, 1, DigitPrefixLen(s))))

ParseFloat(s) ==
  IF DigitPrefixLen(s) = 0 THEN NaN
  ELSE Num(DigitsVal(SubSeq(s, 1, DigitPrefixLen(s))))

\* isNaN(x) for the result of parseFloat
IsNaN(v) == v.t = "NaN"

\* a.id === id, where a.id is a number and id the result of parseInt
IdEq(n, v) == v.t = "number" /\ v.n = n

\* array.findIndex(a => a.id === id); 0 stands for -1 (no index)
FindIndex(coll, id) ==
  IF \E i \in 1..Len(coll) : IdEq(coll[i].id, id)
  THEN CHOOSE i \in 1..Len(coll) :
         IdEq(coll[i].id, id) /\ \A j \in 1..(i - 1) : ~IdEq(coll[j].id, id)
  ELSE 0

\* array.splice(index): everything from the index on is removed
SpliceToEnd(coll, index) ==
  [i \in 1..(index - 1) |-> coll[i]]

\* array.splice(index, 1)
Splice(coll, index) ==
  [i \in 1..(Len(coll) - 1) |-> IF i < index THEN coll[i] ELSE coll[i + 1]]

\* JSON text of an object: a property whose value is undefined is left out
\* by JSON.stringify (res.json, saveData); only owner can be undefined.
ToJson(rec) ==
  IF "owner" \in DOMAIN rec /\ rec.owner = Undef
  THEN [k \in DOMAIN rec \ {"owner"} |-> rec[k]]
  ELSE rec

ToJsonAll(coll) == [i \in 1..Len(coll) |-> ToJson(coll[i])]

\* JSON.parse of a stored classified: a key left out reads as undefined
FromJsonAd(j) ==
  IF "owner" \in DOMAIN j THEN j
  ELSE [k \in DOMAIN j \cup {"owner"} |-> IF k = "owner" THEN Undef ELSE j[k]]

FromJsonAds(items) == [i \in 1..Len(items) |-> FromJsonAd(items[i])]
(***************************************************************************)
(* State.                                                                  *)
(***************************************************************************)
VARIABLES
  variant,          \* "persisted" (src/server.js) or "memory" (part_000)
  writable,         \* fs.writeFileSync succeeds on the data directory
  files,            \* the data directory: file name -> content
  usersData,        \* what loadData('users.json') returned at boot
  users,
  sessions,         \* own properties of the sessions object
  classifieds, nextAdId,
  vacancies, nextVacancyId,
  companies, nextCompanyId,
  realEstate, nextPropertyId,
  inflight,         \* bag of the requests received, response not yet out
  batch,            \* history: the requests that arrived together, and the
                    \* vacancies store as they found it
  req,              \* the request handled last
  res,              \* the response sent to it
  issued,           \* history: per type, the ids given to created records
  randomCount,      \* history: number of tokens drawn from crypto.randomBytes
  bootCount         \* history: randomCount when the running process booted

vars == <<variant, writable, files, usersData, users, sessions, classifieds,
          nextAdId,
          vacancies, nextVacancyId, companies, nextCompanyId, realEstate,
          nextPropertyId, inflight, batch, req, res, issued, randomCount,
          bootCount>>

FileNames == {"users.json", "classifieds.json", "vacancies.json",
              "companies.json", "realEstate.json"}

TypeNames == {"classifieds", "vacancies", "companies", "realEstate"}

Missing == [t |-> "missing"]

\* LoadData that takes the items from the file but not the counter
LoadDataItemsOnly(dir, fileName, defaults) ==
  IF dir[fileName].t = "missing"
  THEN [nextId |-> defaults.nextId, items |-> defaults.items]
  ELSE [nextId |-> defaults.nextId, items |-> dir[fileName].items]

\* LoadData that falls back to both defaults when either part is absent
LoadDataAllOrNothing(dir, fileName, defaults) ==
  IF /\ dir[fileName].t = "json"
     /\ "nextId" \in DOMAIN dir[fileName] /\ dir[fileName].nextId # 0
     /\ "items" \in DOMAIN dir[fileName]
  THEN [nextId |-> dir[fileName].nextId, items |-> dir[fileName].items]
  ELSE [nextId |-> defaults.nextId, items |-> defaults.items]

\* loadData(fileName, defaults) over the data directory dir. The catch
\* branch is taken when fs.readFileSync throws (no file, or a file that
\* cannot be read), when JSON.parse throws (text that is no JSON), and when
\* parsed.nextId throws (the JSON text null); a JSON object gives each part
\* it has under ||, so a part that is absent or 0 gives the default.
LoadData(dir, fileName, defaults) ==
  IF dir[fileName].t \in {"missing", "unreadable", "text", "null"}
  THEN [nextId |-> defaults.nextId, items |-> defaults.items]
  ELSE [nextId |-> IF /\ "nextId" \in DOMAIN dir[fileName]
                      /\ dir[fileName].nextId # 0
                   THEN dir[fileName].nextId
                   ELSE defaults.nextId,
        items |-> IF "items" \in DOMAIN dir[fileName]
                  THEN dir[fileName].items
                  ELSE defaults.items]

\* saveData that writes the items without the counter
SaveDataItemsOnly(dir, fileName, data) ==
  IF writable
  THEN [dir EXCEPT ![fileName] =
          [t |-> "json", items |-> ToJsonAll(data.items)]]
  ELSE dir

\* saveData(fileName, data): the directory after the call. When
\* fs.writeFileSync throws, the file is as it was.
SaveData(dir, fileName, data) ==
  IF writable
  THEN [dir EXCEPT ![fileName] =
          [t |-> "json", nextId |-> data.nextId,
           items |-> ToJsonAll(data.items)]]
  ELSE dir

\* saveData throws: the exception leaves the handler, which sends nothing
SaveThrows == variant = "persisted" /\ ~writable

Defaults == [nextId |-> 1, items |-> << >>]

\* the number of records, and of things, created so far
Records ==
  (nextAdId - 1) + (nextVacancyId - 1) + (nextCompanyId - 1)
  + (nextPropertyId - 1)

Work == Records + Len(users) + randomCount

\* the number of records created since the data directory was empty
Created ==
  Len(issued["classifieds"]) + Len(issued["vacancies"])
  + Len(issued["companies"]) + Len(issued["realEstate"])

CanCreateRecord ==
  Records < MaxRecords /\ Created < MaxRecords /\ Work < MaxWork

\* what no request handler assigns
deployment == <<variant, writable, inflight, batch>>
accountVars == <<usersData, users, sessions, randomCount>>
adVars == <<classifieds, nextAdId>>
vacancyVars == <<vacancies, nextVacancyId>>
companyVars == <<companies, nextCompanyId>>
propertyVars == <<realEstate, nextPropertyId>>

\* no request is being handled: the server waits in the event loop
Idle == req.route = "none"

None == [route |-> "none"]

\* no requests have arrived together yet
NoBatch ==
  [requests |-> EmptyBag,
   before |-> [nextId |-> 1, items |-> << >>, file |-> [t |-> "missing"]]]

Init ==
  /\ variant \in {"persisted", "memory"}
  /\ writable = TRUE
  /\ inflight = EmptyBag
  /\ batch = NoBatch
  /\ files = [f \in FileNames |-> Missing]
  /\ usersData = [nextId |-> LoadData(files, "users.json", Defaults).nextId]
  /\ users = LoadData(files, "users.json", Defaults).items
  /\ sessions = << >>
  /\ classifieds = LoadData(files, "classifieds.json", Defaults).items
  /\ nextAdId = LoadData(files, "classifieds.json", Defaults).nextId
  /\ vacancies = LoadData(files, "vacancies.json", Defaults).items
  /\ nextVacancyId = LoadData(files, "vacancies.json", Defaults).nextId
  /\ companies = LoadData(files, "companies.json", Defaults).items
  /\ nextCompanyId = LoadData(files, "companies.json", Defaults).nextId
  /\ realEstate = LoadData(files, "realEstate.json", Defaults).items
  /\ nextPropertyId = LoadData(files, "realEstate.json", Defaults).nextId
  /\ req = None
  /\ res = None
  /\ issued = [t \in TypeNames |-> << >>]
  /\ randomCount = 0
  /\ bootCount = 0
(***************************************************************************)
(* Inputs: the request bodies, headers, queries and path parameters tried. *)
(* String fields carry strings, numeric fields numbers or null.            *)
(***************************************************************************)
Empty == Str(<< >>)

\* new Date().toISOString() at the creation of the n-th record of a type:
\* later records of a type carry later timestamps
Now(n) == Str(<<"T", Digits[n + 1]>>)

\* :id path parameters: the ids that can be in use
IdParams == {<<Digits[n + 1]>> : n \in 1..MaxRecords}

\* the n-th value of crypto.randomBytes(16).toString('hex'); the values
\* drawn are taken to be pairwise different
Token(n) == Str(<<"token", Digits[n + 1]>>)

\* property names every object inherits from Object.prototype
ObjectPrototypeKeys == {Str(<<"constructor">>)}

\* the value of an inherited property: a function, with no username
InheritedMember == [t |-> "function"]

\* Authorization headers: none, a name never drawn, an inherited name, and
\* every token drawn so far (in this process or an earlier one)
AuthHeaders ==
  {Undef, Str(<<"forged">>), Str(<<"constructor">>)}
  \cup {Token(n) : n \in 1..randomCount}

UserBody(u, p, r) == [username |-> u, password |-> p, role |-> r]

alice == Str(<<"alice">>)
bob == Str(<<"bob">>)
pw == Str(<<"pw">>)
pw2 == Str(<<"pw2">>)
admin == Str(<<"admin">>)

RegisterBodies ==
  {UserBody(alice, pw, Undef), UserBody(bob, pw2, admin),
   UserBody(Undef, pw, Undef), UserBody(alice, Empty, Undef)}

LoginBodies ==
  {UserBody(alice, pw, Undef), UserBody(alice, pw2, Undef),
   UserBody(bob, pw2, Undef), UserBody(Undef, Undef, Undef)}

sT == Str(<<"t">>)
sU == Str(<<"u">>)
sD == Str(<<"d">>)
sC == Str(<<"c">>)
sN == Str(<<"n">>)
sL == Str(<<"l">>)
sAcme == Str(<<"A", "c", "m", "e">>)
sBeta == Str(<<"B", "e", "t", "a">>)
sHouse == Str(<<"H", "o">>)
sFlat == Str(<<"f", "l">>)

\* a PUT body that also carries id and dateCreated keys, which no handler
\* reads: each takes title, description, ... out of req.body by name
WithRecordKeys(body) ==
  [k \in DOMAIN body \cup {"id", "dateCreated"} |->
     IF k = "id" THEN Num(9)
     ELSE IF k = "dateCreated" THEN Str(<<"T", "0">>)
     ELSE body[k]]

AdBody(ti, de, ca, pr) ==
  [title |-> ti, description |-> de, category |-> ca, price |-> pr]

AdPostBodies ==
  {AdBody(sT, sD, sC, Num(5)), AdBody(sT, sD, sC, Num(0)),
   AdBody(Undef, sD, sC, Num(5)), AdBody(sT, Empty, Undef, Undef)}

AdPutBodies ==
  {WithRecordKeys(AdBody(Empty, Undef, sU, Num(0)))}

VacancyBody(ti, co, de, sa) ==
  [title |-> ti, company |-> co, description |-> de, salary |-> sa]

VacancyPostBodies ==
  {VacancyBody(sT, sAcme, sD, Num(5)), VacancyBody(sT, sBeta, sD, Undef),
   VacancyBody(Undef, sAcme, sD, Num(5)),
   VacancyBody(sT, Empty, Undef, Undef)}

VacancyPutBodies ==
  {WithRecordKeys(VacancyBody(Empty, Undef, sU, Num(0)))}

\* ?category=&minSalary= : absent, or a string
VacancyQuery(ca, mi) == [category |-> ca, minSalary |-> mi]

VacancyQueries ==
  {VacancyQuery(Undef, Undef), VacancyQuery(Str(<<"T">>), Undef),
   VacancyQuery(Undef, Str(<<"5">>)), VacancyQuery(Undef, Str(<<"5", "x">>)),
   VacancyQuery(Undef, Str(<<"x">>)),
   VacancyQuery(Str(<<"a", "C">>), Str(<<"0">>))}

CompanyBody(na, ca, de, ra) ==
  [name |-> na, category |-> ca, description |-> de, rating |-> ra]

CompanyPostBodies ==
  {CompanyBody(sN, sAcme, sD, Num(5)), CompanyBody(sN, sBeta, sD, Num(0)),
   CompanyBody(Undef, sAcme, sD, Num(5)),
   CompanyBody(sN, Empty, Undef, Undef)}

CompanyPutBodies ==
  {WithRecordKeys(CompanyBody(sU, Undef, Empty, Null))}

CompanyQueries == [category : {Undef, Str(<<"a", "C">>)}]

PropertyBody(ty, ti, de, pr, lo) ==
  [type |-> ty, title |-> ti, description |-> de, price |-> pr,
   location |-> lo]

PropertyPostBodies ==
  {PropertyBody(sHouse, sT, sD, Num(5), sL),
   PropertyBody(sFlat, sT, sD, Undef, Empty),
   PropertyBody(Undef, sT, sD, Num(5), sL),
   PropertyBody(sHouse, Empty, Undef, Undef, Undef)}

PropertyPutBodies ==
  {WithRecordKeys(PropertyBody(Empty, Undef, sU, Num(0), Empty))}

\* ?type=&minPrice= : absent, or a string
PropertyQuery(ty, mi) == [type |-> ty, minPrice |-> mi]

PropertyQueries ==
  {PropertyQuery(Undef, Undef), PropertyQuery(Str(<<"h", "O">>), Undef),
   PropertyQuery(Str(<<"h">>), Undef), PropertyQuery(Undef, Str(<<"5">>)),
   PropertyQuery(Undef, Str(<<"5", "x">>)),
   PropertyQuery(Str(<<"h", "O">>), Str(<<"0">>))}

(***************************************************************************)
(* The request cycle.                                                      *)
(***************************************************************************)
Msg(status, text) == [status |-> status, body |-> [message |-> Str(<<text>>)]]

\* what the client gets: the response of the handler, or, when saveData
\* threw before the handler responded, the 500 of the default error handler
Answer(response) ==
  IF SaveThrows THEN Msg(500, "Internal Server Error") ELSE response

\* the response is out and the event loop takes the next request
EndRequest ==
  /\ ~Idle
  /\ req' = None
  /\ res' = None
  /\ UNCHANGED <<deployment, files, accountVars, adVars, vacancyVars,
                 companyVars, propertyVars, issued, bootCount>>

(***************************************************************************)
(* Users and sessions.                                                     *)
(***************************************************************************)
\* users.find(u => u.username === username): the index, 0 for none
FindUsername(us, username) ==
  IF \E i \in 1..Len(us) : us[i].username = username
  THEN CHOOSE i \in 1..Len(us) :
         us[i].username = username
         /\ \A j \in 1..(i - 1) : us[j].username # username
  ELSE 0

\* FindCredentials that matches on the username alone
FindCredentialsAnyPassword(us, username, password) ==
  IF \E i \in 1..Len(us) : us[i].username = username
  THEN CHOOSE i \in 1..Len(us) :
         /\ us[i].username = username
         /\ \A j \in 1..(i - 1) : us[j].username # username
  ELSE 0

\* users.find(u => u.username === username && u.password === password)
FindCredentials(us, username, password) ==
  IF \E i \in 1..Len(us) :
       us[i].username = username /\ us[i].password = password
  THEN CHOOSE i \in 1..Len(us) :
         /\ us[i].username = username /\ us[i].password = password
         /\ \A j \in 1..(i - 1) :
              ~(us[j].username = username /\ us[j].password = password)
  ELSE 0

\* RegisterStatus without the lookup of the username
RegisterStatusNoConflict(us, body) ==
  IF ~Truthy(body.username) \/ ~Truthy(body.password) THEN 400
  ELSE 201

\* the status the register handler answers with
RegisterStatus(us, body) ==
  IF ~Truthy(body.username) \/ ~Truthy(body.password) THEN 400
  ELSE IF FindUsername(us, body.username) # 0 THEN 409
  ELSE 201

\* { username, password, role: role || 'user' }
NewUser(body) ==
  [username |-> body.username, password |-> body.password,
   role |-> OrElse(body.role, Str(<<"user">>))]

\* app.post('/api/register')
Register ==
  \E body \in RegisterBodies :
    LET status == RegisterStatus(users, body) IN
    /\ Idle
    /\ status = 201 => Work < MaxWork
    /\ req' = [route |-> "POST /api/register", body |-> body]
    /\ res' = CASE status = 400 -> Msg(400, "Missing username or password")
                 [] status = 409 -> Msg(409, "User already exists")
                 [] OTHER -> Answer(Msg(201, "User registered successfully"))
    /\ users' = IF status = 201 THEN Append(users, NewUser(body)) ELSE users
    /\ files' = IF status = 201 /\ variant = "persisted"
                THEN SaveData(files, "users.json",
                              [nextId |-> usersData.nextId, items |-> users'])
                ELSE files
    /\ UNCHANGED <<deployment, usersData, sessions, randomCount, adVars,
                   vacancyVars, companyVars, propertyVars, issued, bootCount>>

\* sessions[token] = { username: user.username, role: user.role }
SessionsPut(sess, token, user) ==
  [k \in DOMAIN sess \cup {token} |->
     IF k = token
     THEN [t |-> "object", username |-> user.username, role |-> user.role]
     ELSE sess[k]]

\* sessions[token]: an own property, else an inherited one, else undefined
SessionsGet(sess, token) ==
  IF token \in DOMAIN sess THEN sess[token]
  ELSE IF token \in ObjectPrototypeKeys THEN InheritedMember
  ELSE Undef

\* object.key
ReadProp(obj, key) == IF key \in DOMAIN obj THEN obj[key] ELSE Undef

\* app.post('/api/login')
Login ==
  \E body \in LoginBodies :
    LET i == FindCredentials(users, body.username, body.password)
        token == Token(randomCount + 1)
    IN
    /\ Idle
    /\ req' = [route |-> "POST /api/login", body |-> body]
    /\ IF i = 0
       THEN /\ res' = Msg(401, "Invalid credentials")
            /\ UNCHANGED <<sessions, randomCount>>
       ELSE IF variant = "persisted"
       THEN /\ Work < MaxWork
            /\ randomCount' = randomCount + 1
            /\ sessions' = SessionsPut(sessions, token, users[i])
            /\ res' = [status |-> 200,
                       body |-> [message |-> "Login successful",
                                 token |-> token,
                                 user |-> [username |-> users[i].username,
                                           role |-> users[i].role]]]
       ELSE /\ res' = [status |-> 200,
                       body |-> [message |-> "Login successful",
                                 user |-> [username |-> body.username,
                                           role |-> users[i].role]]]
            /\ UNCHANGED <<sessions, randomCount>>
    /\ UNCHANGED <<deployment, files, usersData, users, adVars, vacancyVars,
                   companyVars, propertyVars, issued, bootCount>>

\* authenticate that accepts every header that is present
AuthenticatedAnyToken(sess, token) ==
  Truthy(token)

\* authenticate: does the request reach the handler
Authenticated(sess, token) ==
  ~(~Truthy(token) \/ ~Truthy(SessionsGet(sess, token)))

(***************************************************************************)
(* Lookup by id, shared by the GET, PUT and DELETE handlers of every type. *)
(***************************************************************************)
\* GetById that takes the id for the position in the collection
GetByPosition(coll, param, key, notFound) ==
  LET id == ParseInt(param) IN
  IF id.t # "number" \/ id.n < 1 \/ id.n > Len(coll) THEN Msg(404, notFound)
  ELSE [status |-> 200, body |-> [k \in {key} |-> ToJson(coll[id.n])]]

\* GET /api/<type>/:id : the response for collection coll
GetById(coll, param, key, notFound) ==
  LET index == FindIndex(coll, ParseInt(param)) IN
  IF index = 0 THEN Msg(404, notFound)
  ELSE [status |-> 200, body |-> [k \in {key} |-> ToJson(coll[index])]]

\* the response of a successful POST or PUT
Sent(status, text, key, rec) ==
  [status |-> status,
   body |-> [k \in {"message", key} |->
               IF k = "message" THEN Str(<<text>>) ELSE ToJson(rec)]]

(***************************************************************************)
(* Classifieds.                                                            *)
(***************************************************************************)
\* the record app.post('/api/classifieds') builds in src/server.js
NewAd(id, body, now, user) ==
  [id |-> id, title |-> body.title, description |-> body.description,
   category |-> body.category, price |-> DefinedOr(body.price, Null),
   dateCreated |-> now, owner |-> ReadProp(user, "username")]

\* NewAdMemory with the id taken from the collection's length
NewAdMemoryLengthId(id, body, now) ==
  [id |-> Len(classifieds) + 1, title |-> body.title,
   description |-> body.description, category |-> body.category,
   price |-> OrElse(body.price, Null), dateCreated |-> now, owner |-> Undef]

\* the record app.post('/api/classifieds') builds in part_000
NewAdMemory(id, body, now) ==
  [id |-> id, title |-> body.title, description |-> body.description,
   category |-> body.category, price |-> OrElse(body.price, Null),
   dateCreated |-> now, owner |-> Undef]

\* !title || !description || !category
AdMissingFields(body) ==
  ~Truthy(body.title) \/ ~Truthy(body.description) \/ ~Truthy(body.category)

\* app.post('/api/classifieds', authenticate, ...) of src/server.js
PostClassifieds ==
  \E body \in AdPostBodies, auth \in AuthHeaders :
    LET ad == NewAd(nextAdId, body, Now(nextAdId),
                    SessionsGet(sessions, auth)) IN
    /\ Idle
    /\ variant = "persisted"
    /\ req' = [route |-> "POST /api/classifieds", authorization |-> auth,
               body |-> body]
    /\ IF ~Authenticated(sessions, auth)
       THEN /\ res' = Msg(401, "Unauthorized")
            /\ UNCHANGED <<adVars, files, issued>>
       ELSE IF AdMissingFields(body)
       THEN /\ res' = Msg(400, "Missing required fields")
            /\ UNCHANGED <<adVars, files, issued>>
       ELSE /\ CanCreateRecord
            /\ nextAdId' = nextAdId + 1
            /\ classifieds' = Append(classifieds, ad)
            /\ files' = SaveData(files, "classifieds.json",
                                 [nextId |-> nextAdId', items |-> classifieds'])
            /\ res' = Answer(Sent(201, "Classified created", "ad", ad))
            /\ issued' = [issued EXCEPT !["classifieds"] = Append(@, ad.id)]
    /\ UNCHANGED <<deployment, accountVars, vacancyVars, companyVars,
                   propertyVars, bootCount>>

\* app.post('/api/classifieds') of part_000
PostClassifiedsMemory ==
  \E body \in AdPostBodies :
    LET ad == NewAdMemory(nextAdId, body, Now(nextAdId)) IN
    /\ Idle
    /\ variant = "memory"
    /\ req' = [route |-> "POST /api/classifieds", authorization |-> Undef,
               body |-> body]
    /\ IF AdMissingFields(body)
       THEN /\ res' = Msg(400, "Missing required fields")
            /\ UNCHANGED <<adVars, issued>>
       ELSE /\ CanCreateRecord
            /\ nextAdId' = nextAdId + 1
            /\ classifieds' = Append(classifieds, ad)
            /\ res' = Sent(201, "Classified created", "ad", ad)
            /\ issued' = [issued EXCEPT !["classifieds"] = Append(@, ad.id)]
    /\ UNCHANGED <<deployment, files, accountVars, vacancyVars, companyVars,
                   propertyVars, bootCount>>

\* app.get('/api/classifieds')
GetClassifieds ==
  /\ Idle
  /\ req' = [route |-> "GET /api/classifieds"]
  /\ res' = [status |-> 200, body |-> [classifieds |-> ToJsonAll(classifieds)]]
  /\ UNCHANGED <<deployment, files, accountVars, adVars, vacancyVars,
                 companyVars, propertyVars, issued, bootCount>>

\* app.get('/api/classifieds/:id')
GetClassified ==
  \E param \in IdParams :
    /\ Idle
    /\ req' = [route |-> "GET /api/classifieds/:id", id |-> param]
    /\ res' = GetById(classifieds, param, "ad", "Ad not found")
    /\ UNCHANGED <<deployment, files, accountVars, adVars, vacancyVars,
                   companyVars, propertyVars, issued, bootCount>>

\* UpdateAd with price || ad.price
UpdateAdTruthyPrice(ad, body) ==
  [ad EXCEPT !.title = OrElse(body.title, ad.title),
             !.description = OrElse(body.description, ad.description),
             !.category = OrElse(body.category, ad.category),
             !.price = OrElse(body.price, ad.price)]

\* the assignments of app.put('/api/classifieds/:id') to the record found
UpdateAd(ad, body) ==
  [ad EXCEPT !.title = OrElse(body.title, ad.title),
             !.description = OrElse(body.description, ad.description),
             !.category = OrElse(body.category, ad.category),
             !.price = DefinedOr(body.price, ad.price)]

\* app.put('/api/classifieds/:id')
PutClassified ==
  \E param \in IdParams, body \in AdPutBodies :
    LET index == FindIndex(classifieds, ParseInt(param)) IN
    /\ Idle
    /\ req' = [route |-> "PUT /api/classifieds/:id", id |-> param,
               body |-> body]
    /\ IF index = 0
       THEN /\ res' = Msg(404, "Ad not found")
            /\ UNCHANGED <<classifieds, files>>
       ELSE /\ classifieds' = [classifieds EXCEPT
                                 ![index] = UpdateAd(classifieds[index], body)]
            /\ files' = IF variant = "persisted"
                        THEN SaveData(files, "classifieds.json",
                                      [nextId |-> nextAdId,
                                       items |-> classifieds'])
                        ELSE files
            /\ res' = Answer(Sent(200, "Ad updated", "ad", classifieds'[index]))
    /\ UNCHANGED <<deployment, accountVars, nextAdId, vacancyVars, companyVars,
                   propertyVars, issued, bootCount>>

\* app.delete('/api/classifieds/:id')
DeleteClassified ==
  \E param \in IdParams :
    LET index == FindIndex(classifieds, ParseInt(param)) IN
    /\ Idle
    /\ req' = [route |-> "DELETE /api/classifieds/:id", id |-> param]
    /\ IF index = 0
       THEN /\ res' = Msg(404, "Ad not found")
            /\ UNCHANGED <<classifieds, files>>
       ELSE /\ classifieds' = Splice(classifieds, index)
            /\ files' = IF variant = "persisted"
                        THEN SaveData(files, "classifieds.json",
                                      [nextId |-> nextAdId,
                                       items |-> classifieds'])
                        ELSE files
            /\ res' = Answer(Msg(200, "Ad deleted"))
    /\ UNCHANGED <<deployment, accountVars, nextAdId, vacancyVars, companyVars,
                   propertyVars, issued, bootCount>>

(***************************************************************************)
(* Vacancies.                                                              *)
(***************************************************************************)
\* the record app.post('/api/vacancies') builds
NewVacancy(id, body, now) ==
  [id |-> id, title |-> body.title, company |-> body.company,
   description |-> body.description,
   salary |-> DefinedOr(body.salary, Null),
   dateCreated |-> now]

\* !title || !company || !description
VacancyMissingFields(body) ==
  ~Truthy(body.title) \/ ~Truthy(body.company) \/ ~Truthy(body.description)

\* app.post('/api/vacancies') that takes the id before it validates
PostVacanciesCountsFirst ==
  \E body \in VacancyPostBodies :
    LET vacancy == NewVacancy(nextVacancyId, body, Now(nextVacancyId)) IN
    /\ Idle
    /\ CanCreateRecord
    /\ req' = [route |-> "POST /api/vacancies", body |-> body]
    /\ nextVacancyId' = nextVacancyId + 1
    /\ IF VacancyMissingFields(body)
       THEN /\ res' = Msg(400, "Missing required fields")
            /\ UNCHANGED <<vacancies, files, issued>>
       ELSE /\ vacancies' = Append(vacancies, vacancy)
            /\ files' = IF variant = "persisted"
                        THEN SaveData(files, "vacancies.json",
                                      [nextId |-> nextVacancyId',
                                       items |-> vacancies'])
                        ELSE files
            /\ res' = Answer(Sent(201, "Vacancy created", "vacancy", vacancy))
            /\ issued' = [issued EXCEPT !["vacancies"] = Append(@, vacancy.id)]
    /\ UNCHANGED <<deployment, accountVars, adVars, companyVars, propertyVars,
                   bootCount>>

\* app.post('/api/vacancies') that works on the counter as it was when the
\* request arrived, as a handler that yields between reading and writing does
PostVacanciesStaleCounter ==
  \E body \in VacancyPostBodies :
    LET vacancy == NewVacancy(batch.before.nextId, body,
                              Now(batch.before.nextId)) IN
    /\ Idle
    /\ req' = [route |-> "POST /api/vacancies", body |-> body]
    /\ IF VacancyMissingFields(body)
       THEN /\ res' = Msg(400, "Missing required fields")
            /\ UNCHANGED <<vacancyVars, files, issued>>
       ELSE /\ CanCreateRecord
            /\ nextVacancyId' = batch.before.nextId + 1
            /\ vacancies' = Append(vacancies, vacancy)
            /\ files' = IF variant = "persisted"
                        THEN SaveData(files, "vacancies.json",
                                      [nextId |-> nextVacancyId',
                                       items |-> vacancies'])
                        ELSE files
            /\ res' = Answer(Sent(201, "Vacancy created", "vacancy", vacancy))
            /\ issued' = [issued EXCEPT !["vacancies"] = Append(@, vacancy.id)]
    /\ UNCHANGED <<deployment, accountVars, adVars, companyVars, propertyVars,
                   bootCount>>

\* app.post('/api/vacancies')
PostVacancies ==
  \E body \in VacancyPostBodies :
    LET vacancy == NewVacancy(nextVacancyId, body, Now(nextVacancyId)) IN
    /\ Idle
    /\ req' = [route |-> "POST /api/vacancies", body |-> body]
    /\ IF VacancyMissingFields(body)
       THEN /\ res' = Msg(400, "Missing required fields")
            /\ UNCHANGED <<vacancyVars, files, issued>>
       ELSE /\ CanCreateRecord
            /\ nextVacancyId' = nextVacancyId + 1
            /\ vacancies' = Append(vacancies, vacancy)
            /\ files' = IF variant = "persisted"
                        THEN SaveData(files, "vacancies.json",
                                      [nextId |-> nextVacancyId',
                                       items |-> vacancies'])
                        ELSE files
            /\ res' = Answer(Sent(201, "Vacancy created", "vacancy", vacancy))
            /\ issued' = [issued EXCEPT !["vacancies"] = Append(@, vacancy.id)]
    /\ UNCHANGED <<deployment, accountVars, adVars, companyVars, propertyVars,
                   bootCount>>

\* the filters of app.get('/api/vacancies') in src/server.js
FilterVacancies(coll, query) ==
  LET byCategory ==
        IF Truthy(query.category)
        THEN SelectSeq(coll, LAMBDA v :
               Includes(ToLowerCase(v.company.s),
                        ToLowerCase(query.category.s)))
        ELSE coll
  IN
  IF Truthy(query.minSalary) /\ ~IsNaN(ParseFloat(query.minSalary.s))
  THEN SelectSeq(byCategory, LAMBDA v :
         v.salary # Null /\ v.salary.n >= ParseFloat(query.minSalary.s).n)
  ELSE byCategory

\* app.get('/api/vacancies'): filtered in src/server.js, whole in part_000
GetVacancies ==
  \E query \in VacancyQueries :
    /\ Idle
    /\ req' = [route |-> "GET /api/vacancies", query |-> query]
    /\ res' = [status |-> 200,
               body |-> [vacancies |->
                           ToJsonAll(IF variant = "persisted"
                                     THEN FilterVacancies(vacancies, query)
                                     ELSE vacancies)]]
    /\ UNCHANGED <<deployment, files, accountVars, adVars, vacancyVars,
                   companyVars, propertyVars, issued, bootCount>>

\* app.get('/api/vacancies/:id')
GetVacancy ==
  \E param \in IdParams :
    /\ Idle
    /\ req' = [route |-> "GET /api/vacancies/:id", id |-> param]
    /\ res' = GetById(vacancies, param, "vacancy", "Vacancy not found")
    /\ UNCHANGED <<deployment, files, accountVars, adVars, vacancyVars,
                   companyVars, propertyVars, issued, bootCount>>

\* the assignments of app.put('/api/vacancies/:id') to the record found
UpdateVacancy(vacancy, body) ==
  [vacancy EXCEPT
    !.title = IF Truthy(body.title) THEN body.title ELSE vacancy.title,
    !.company = IF Truthy(body.company) THEN body.company ELSE vacancy.company,
    !.description = IF Truthy(body.description)
                    THEN body.description
                    ELSE vacancy.description,
    !.salary = IF body.salary.t # "undefined"
               THEN body.salary
               ELSE vacancy.salary]

\* app.put('/api/vacancies/:id')
PutVacancy ==
  \E param \in IdParams, body \in VacancyPutBodies :
    LET index == FindIndex(vacancies, ParseInt(param)) IN
    /\ Idle
    /\ req' = [route |-> "PUT /api/vacancies/:id", id |-> param,
               body |-> body]
    /\ IF index = 0
       THEN /\ res' = Msg(404, "Vacancy not found")
            /\ UNCHANGED <<vacancies, files>>
       ELSE /\ vacancies' = [vacancies EXCEPT
                            ![index] = UpdateVacancy(vacancies[index], body)]
            /\ files' = IF variant = "persisted"
                        THEN SaveData(files, "vacancies.json",
                                      [nextId |-> nextVacancyId,
                                       items |-> vacancies'])
                        ELSE files
            /\ res' = Answer(Sent(200, "Vacancy updated", "vacancy",
                                  vacancies'[index]))
    /\ UNCHANGED <<deployment, accountVars, nextVacancyId, adVars, companyVars,
                   propertyVars, issued, bootCount>>

\* app.delete('/api/vacancies/:id')
DeleteVacancy ==
  \E param \in IdParams :
    LET index == FindIndex(vacancies, ParseInt(param)) IN
    /\ Idle
    /\ req' = [route |-> "DELETE /api/vacancies/:id", id |-> param]
    /\ IF index = 0
       THEN /\ res' = Msg(404, "Vacancy not found")
            /\ UNCHANGED <<vacancies, files>>
       ELSE /\ vacancies' = Splice(vacancies, index)
            /\ files' = IF variant = "persisted"
                        THEN SaveData(files, "vacancies.json",
                                      [nextId |-> nextVacancyId,
                                       items |-> vacancies'])
                        ELSE files
            /\ res' = Answer(Msg(200, "Vacancy deleted"))
    /\ UNCHANGED <<deployment, accountVars, nextVacancyId, adVars, companyVars,
                   propertyVars, issued, bootCount>>

(***************************************************************************)
(* Companies.                                                              *)
(***************************************************************************)
\* NewCompany with ++nextCompanyId in place of nextCompanyId++
NewCompanyPreIncrement(id, body, now) ==
  [id |-> id + 1, name |-> body.name, category |-> body.category,
   description |-> body.description, rating |-> DefinedOr(body.rating, Null),
   dateCreated |-> now]

\* the record app.post('/api/companies') builds
NewCompany(id, body, now) ==
  [id |-> id, name |-> body.name, category |-> body.category,
   description |-> body.description,
   rating |-> DefinedOr(body.rating, Null),
   dateCreated |-> now]

\* !name || !category || !description
CompanyMissingFields(body) ==
  ~Truthy(body.name) \/ ~Truthy(body.category) \/ ~Truthy(body.description)

\* app.post('/api/companies') that also advances the counter of vacancies
PostCompaniesSharedCounter ==
  \E body \in CompanyPostBodies :
    LET company == NewCompany(nextCompanyId, body, Now(nextCompanyId)) IN
    /\ Idle
    /\ req' = [route |-> "POST /api/companies", body |-> body]
    /\ IF CompanyMissingFields(body)
       THEN /\ res' = Msg(400, "Missing required fields")
            /\ UNCHANGED <<companyVars, vacancyVars, files, issued>>
       ELSE /\ CanCreateRecord
            /\ nextCompanyId' = nextCompanyId + 1
            /\ nextVacancyId' = nextVacancyId + 1
            /\ companies' = Append(companies, company)
            /\ vacancies' = vacancies
            /\ files' = IF variant = "persisted"
                        THEN SaveData(files, "companies.json",
                                      [nextId |-> nextCompanyId',
                                       items |-> companies'])
                        ELSE files
            /\ res' = Answer(Sent(201, "Company created", "company", company))
            /\ issued' = [issued EXCEPT !["companies"] = Append(@, company.id)]
    /\ UNCHANGED <<deployment, accountVars, adVars, propertyVars, bootCount>>

\* app.post('/api/companies')
PostCompanies ==
  \E body \in CompanyPostBodies :
    LET company == NewCompany(nextCompanyId, body, Now(nextCompanyId)) IN
    /\ Idle
    /\ req' = [route |-> "POST /api/companies", body |-> body]
    /\ IF CompanyMissingFields(body)
       THEN /\ res' = Msg(400, "Missing required fields")
            /\ UNCHANGED <<companyVars, files, issued>>
       ELSE /\ CanCreateRecord
            /\ nextCompanyId' = nextCompanyId + 1
            /\ companies' = Append(companies, company)
            /\ files' = IF variant = "persisted"
                        THEN SaveData(files, "companies.json",
                                      [nextId |-> nextCompanyId',
                                       items |-> companies'])
                        ELSE files
            /\ res' = Answer(Sent(201, "Company created", "company", company))
            /\ issued' = [issued EXCEPT !["companies"] = Append(@, company.id)]
    /\ UNCHANGED <<deployment, accountVars, adVars, vacancyVars, propertyVars,
                   bootCount>>

\* the filter of app.get('/api/companies') in src/server.js
FilterCompanies(coll, query) ==
  IF Truthy(query.category)
  THEN SelectSeq(coll, LAMBDA c :
         Includes(ToLowerCase(c.category.s), ToLowerCase(query.category.s)))
  ELSE coll

\* app.get('/api/companies'): filtered in src/server.js, whole in part_000
GetCompanies ==
  \E query \in CompanyQueries :
    /\ Idle
    /\ req' = [route |-> "GET /api/companies", query |-> query]
    /\ res' = [status |-> 200,
               body |-> [companies |->
                           ToJsonAll(IF variant = "persisted"
                                     THEN FilterCompanies(companies, query)
                                     ELSE companies)]]
    /\ UNCHANGED <<deployment, files, accountVars, adVars, vacancyVars,
                   companyVars, propertyVars, issued, bootCount>>

\* app.get('/api/companies/:id')
GetCompany ==
  \E param \in IdParams :
    /\ Idle
    /\ req' = [route |-> "GET /api/companies/:id", id |-> param]
    /\ res' = GetById(companies, param, "company", "Company not found")
    /\ UNCHANGED <<deployment, files, accountVars, adVars, vacancyVars,
                   companyVars, propertyVars, issued, bootCount>>

\* an update that copies every key of the body into the record
UpdateCompanyAssignAll(company, body) ==
  [k \in DOMAIN company |->
     IF k = "id" THEN body.id.n
     ELSE IF body[k] # Undef THEN body[k]
     ELSE company[k]]

\* the assignments of app.put('/api/companies/:id') to the record found
UpdateCompany(company, body) ==
  [company EXCEPT
    !.name = IF Truthy(body.name) THEN body.name ELSE company.name,
    !.category = IF Truthy(body.category)
                 THEN body.category
                 ELSE company.category,
    !.description = IF Truthy(body.description)
                    THEN body.description
                    ELSE company.description,
    !.rating = IF body.rating.t # "undefined"
               THEN body.rating
               ELSE company.rating]

\* app.put('/api/companies/:id')
PutCompany ==
  \E param \in IdParams, body \in CompanyPutBodies :
    LET index == FindIndex(companies, ParseInt(param)) IN
    /\ Idle
    /\ req' = [route |-> "PUT /api/companies/:id", id |-> param,
               body |-> body]
    /\ IF index = 0
       THEN /\ res' = Msg(404, "Company not found")
            /\ UNCHANGED <<companies, files>>
       ELSE /\ companies' = [companies EXCEPT
                            ![index] = UpdateCompany(companies[index], body)]
            /\ files' = IF variant = "persisted"
                        THEN SaveData(files, "companies.json",
                                      [nextId |-> nextCompanyId,
                                       items |-> companies'])
                        ELSE files
            /\ res' = Answer(Sent(200, "Company updated", "company",
                                  companies'[index]))
    /\ UNCHANGED <<deployment, accountVars, nextCompanyId, adVars, vacancyVars,
                   propertyVars, issued, bootCount>>

\* app.delete('/api/companies/:id')
DeleteCompany ==
  \E param \in IdParams :
    LET index == FindIndex(companies, ParseInt(param)) IN
    /\ Idle
    /\ req' = [route |-> "DELETE /api/companies/:id", id |-> param]
    /\ IF index = 0
       THEN /\ res' = Msg(404, "Company not found")
            /\ UNCHANGED <<companies, files>>
       ELSE /\ companies' = Splice(companies, index)
            /\ files' = IF variant = "persisted"
                        THEN SaveData(files, "companies.json",
                                      [nextId |-> nextCompanyId,
                                       items |-> companies'])
                        ELSE files
            /\ res' = Answer(Msg(200, "Company deleted"))
    /\ UNCHANGED <<deployment, accountVars, nextCompanyId, adVars, vacancyVars,
                   propertyVars, issued, bootCount>>

(***************************************************************************)
(* Real estate.                                                              *)
(***************************************************************************)
\* the record app.post('/api/real-estate') builds
NewProperty(id, body, now) ==
  [id |-> id, type |-> body.type, title |-> body.title,
   description |-> body.description,
   price |-> DefinedOr(body.price, Null),
   location |-> OrElse(body.location, Null),
   dateCreated |-> now]

\* !type || !title || !description
PropertyMissingFields(body) ==
  ~Truthy(body.type) \/ ~Truthy(body.title) \/ ~Truthy(body.description)

\* app.post('/api/real-estate') that puts the new record first (unshift)
PostRealEstateUnshift ==
  \E body \in PropertyPostBodies :
    LET property == NewProperty(nextPropertyId, body, Now(nextPropertyId)) IN
    /\ Idle
    /\ req' = [route |-> "POST /api/real-estate", body |-> body]
    /\ IF PropertyMissingFields(body)
       THEN /\ res' = Msg(400, "Missing required fields")
            /\ UNCHANGED <<propertyVars, files, issued>>
       ELSE /\ CanCreateRecord
            /\ nextPropertyId' = nextPropertyId + 1
            /\ realEstate' = <<property>> \o realEstate
            /\ files' = IF variant = "persisted"
                        THEN SaveData(files, "realEstate.json",
                                      [nextId |-> nextPropertyId',
                                       items |-> realEstate'])
                        ELSE files
            /\ res' = Answer(Sent(201, "Property created", "property",
                                  property))
            /\ issued' = [issued EXCEPT !["realEstate"] =
                          Append(@, property.id)]
    /\ UNCHANGED <<deployment, accountVars, adVars, vacancyVars, companyVars,
                   bootCount>>

\* app.post('/api/real-estate')
PostRealEstate ==
  \E body \in PropertyPostBodies :
    LET property == NewProperty(nextPropertyId, body, Now(nextPropertyId)) IN
    /\ Idle
    /\ req' = [route |-> "POST /api/real-estate", body |-> body]
    /\ IF PropertyMissingFields(body)
       THEN /\ res' = Msg(400, "Missing required fields")
            /\ UNCHANGED <<propertyVars, files, issued>>
       ELSE /\ CanCreateRecord
            /\ nextPropertyId' = nextPropertyId + 1
            /\ realEstate' = Append(realEstate, property)
            /\ files' = IF variant = "persisted"
                        THEN SaveData(files, "realEstate.json",
                                      [nextId |-> nextPropertyId',
                                       items |-> realEstate'])
                        ELSE files
            /\ res' = Answer(Sent(201, "Property created", "property",
                                  property))
            /\ issued' = [issued EXCEPT !["realEstate"] =
                          Append(@, property.id)]
    /\ UNCHANGED <<deployment, accountVars, adVars, vacancyVars, companyVars,
                   bootCount>>

\* FilterRealEstate that keeps every type containing the text asked for
FilterRealEstateSubstring(coll, query) ==
  LET byType ==
        IF Truthy(query.type)
        THEN SelectSeq(coll, LAMBDA p :
               Includes(ToLowerCase(p.type.s), ToLowerCase(query.type.s)))
        ELSE coll
  IN
  IF Truthy(query.minPrice) /\ ~IsNaN(ParseFloat(query.minPrice.s))
  THEN SelectSeq(byType, LAMBDA p :
         p.price # Null /\ p.price.n >= ParseFloat(query.minPrice.s).n)
  ELSE byType

\* the filters of app.get('/api/real-estate') in src/server.js
FilterRealEstate(coll, query) ==
  LET byType ==
        IF Truthy(query.type)
        THEN SelectSeq(coll, LAMBDA p :
               ToLowerCase(p.type.s) = ToLowerCase(query.type.s))
        ELSE coll
  IN
  IF Truthy(query.minPrice) /\ ~IsNaN(ParseFloat(query.minPrice.s))
  THEN SelectSeq(byType, LAMBDA p :
         p.price # Null /\ p.price.n >= ParseFloat(query.minPrice.s).n)
  ELSE byType

\* app.get('/api/real-estate'): filtered in src/server.js, whole in part_000
GetRealEstate ==
  \E query \in PropertyQueries :
    /\ Idle
    /\ req' = [route |-> "GET /api/real-estate", query |-> query]
    /\ res' = [status |-> 200,
               body |-> [realEstate |->
                           ToJsonAll(IF variant = "persisted"
                                     THEN FilterRealEstate(realEstate, query)
                                     ELSE realEstate)]]
    /\ UNCHANGED <<deployment, files, accountVars, adVars, vacancyVars,
                   companyVars, propertyVars, issued, bootCount>>

\* app.get('/api/real-estate/:id')
GetProperty ==
  \E param \in IdParams :
    /\ Idle
    /\ req' = [route |-> "GET /api/real-estate/:id", id |-> param]
    /\ res' = GetById(realEstate, param, "property", "Property not found")
    /\ UNCHANGED <<deployment, files, accountVars, adVars, vacancyVars,
                   companyVars, propertyVars, issued, bootCount>>

\* the assignments of app.put('/api/real-estate/:id') to the record found
UpdateProperty(property, body) ==
  [property EXCEPT
    !.type = IF Truthy(body.type) THEN body.type ELSE property.type,
    !.title = IF Truthy(body.title) THEN body.title ELSE property.title,
    !.description = IF Truthy(body.description)
                    THEN body.description
                    ELSE property.description,
    !.price = IF body.price.t # "undefined" THEN body.price ELSE property.price,
    !.location = IF body.location.t # "undefined"
                 THEN body.location
                 ELSE property.location]

\* app.put('/api/real-estate/:id')
PutProperty ==
  \E param \in IdParams, body \in PropertyPutBodies :
    LET index == FindIndex(realEstate, ParseInt(param)) IN
    /\ Idle
    /\ req' = [route |-> "PUT /api/real-estate/:id", id |-> param,
               body |-> body]
    /\ IF index = 0
       THEN /\ res' = Msg(404, "Property not found")
            /\ UNCHANGED <<realEstate, files>>
       ELSE /\ realEstate' = [realEstate EXCEPT
                            ![index] = UpdateProperty(realEstate[index], body)]
            /\ files' = IF variant = "persisted"
                        THEN SaveData(files, "realEstate.json",
                                      [nextId |-> nextPropertyId,
                                       items |-> realEstate'])
                        ELSE files
            /\ res' = Answer(Sent(200, "Property updated", "property",
                                  realEstate'[index]))
    /\ UNCHANGED <<deployment, accountVars, nextPropertyId, adVars, vacancyVars,
                   companyVars, issued, bootCount>>

\* DeleteProperty that hands the id of the deleted record back to the counter
DeletePropertyReclaimsId ==
  \E param \in IdParams :
    LET index == FindIndex(realEstate, ParseInt(param)) IN
    /\ Idle
    /\ req' = [route |-> "DELETE /api/real-estate/:id", id |-> param]
    /\ IF index = 0
       THEN /\ res' = Msg(404, "Property not found")
            /\ UNCHANGED <<realEstate, nextPropertyId, files>>
       ELSE /\ realEstate' = Splice(realEstate, index)
            /\ nextPropertyId' = IF index = Len(realEstate)
                                 THEN realEstate[index].id
                                 ELSE nextPropertyId
            /\ files' = IF variant = "persisted"
                        THEN SaveData(files, "realEstate.json",
                                      [nextId |-> nextPropertyId',
                                       items |-> realEstate'])
                        ELSE files
            /\ res' = Answer(Msg(200, "Property deleted"))
    /\ UNCHANGED <<deployment, accountVars, adVars, vacancyVars,
                   companyVars, issued, bootCount>>

\* app.delete('/api/real-estate/:id')
DeleteProperty ==
  \E param \in IdParams :
    LET index == FindIndex(realEstate, ParseInt(param)) IN
    /\ Idle
    /\ req' = [route |-> "DELETE /api/real-estate/:id", id |-> param]
    /\ IF index = 0
       THEN /\ res' = Msg(404, "Property not found")
            /\ UNCHANGED <<realEstate, files>>
       ELSE /\ realEstate' = Splice(realEstate, index)
            /\ files' = IF variant = "persisted"
                        THEN SaveData(files, "realEstate.json",
                                      [nextId |-> nextPropertyId,
                                       items |-> realEstate'])
                        ELSE files
            /\ res' = Answer(Msg(200, "Property deleted"))
    /\ UNCHANGED <<deployment, accountVars, nextPropertyId, adVars, vacancyVars,
                   companyVars, issued, bootCount>>

(***************************************************************************)
(* Process restart.                                                        *)
(***************************************************************************)
\* the process ends and a new one boots: the module-level code of
\* src/server.js (loadData of every file, empty sessions) or of part_000
\* (empty stores)
Restart ==
  LET dir == IF variant = "persisted" THEN files
             ELSE [f \in FileNames |-> Missing]
  IN
  /\ Idle
  /\ usersData' = [nextId |-> LoadData(dir, "users.json", Defaults).nextId]
  /\ users' = LoadData(dir, "users.json", Defaults).items
  /\ sessions' = << >>
  /\ classifieds' = FromJsonAds(
                      LoadData(dir, "classifieds.json", Defaults).items)
  /\ nextAdId' = LoadData(dir, "classifieds.json", Defaults).nextId
  /\ vacancies' = LoadData(dir, "vacancies.json", Defaults).items
  /\ nextVacancyId' = LoadData(dir, "vacancies.json", Defaults).nextId
  /\ companies' = LoadData(dir, "companies.json", Defaults).items
  /\ nextCompanyId' = LoadData(dir, "companies.json", Defaults).nextId
  /\ realEstate' = LoadData(dir, "realEstate.json", Defaults).items
  /\ nextPropertyId' = LoadData(dir, "realEstate.json", Defaults).nextId
  /\ req' = [route |-> "restart"]
  /\ res' = None
  /\ issued' = IF variant = "persisted" THEN issued
               ELSE [t \in TypeNames |-> << >>]
  /\ bootCount' = randomCount
  /\ UNCHANGED <<deployment, files, randomCount>>

(***************************************************************************)
(* Vocabulary of the properties.                                           *)
(***************************************************************************)
Store(t) ==
  CASE t = "classifieds" -> classifieds
    [] t = "vacancies" -> vacancies
    [] t = "companies" -> companies
    [] t = "realEstate" -> realEstate

NextIdOf(t) ==
  CASE t = "classifieds" -> nextAdId
    [] t = "vacancies" -> nextVacancyId
    [] t = "companies" -> nextCompanyId
    [] t = "realEstate" -> nextPropertyId

PathOf(t) ==
  CASE t = "classifieds" -> "/api/classifieds"
    [] t = "vacancies" -> "/api/vacancies"
    [] t = "companies" -> "/api/companies"
    [] t = "realEstate" -> "/api/real-estate"

KeyOf(t) ==
  CASE t = "classifieds" -> "ad"
    [] t = "vacancies" -> "vacancy"
    [] t = "companies" -> "company"
    [] t = "realEstate" -> "property"

RequiredOf(t) ==
  CASE t = "classifieds" -> {"title", "description", "category"}
    [] t = "vacancies" -> {"title", "company", "description"}
    [] t = "companies" -> {"name", "category", "description"}
    [] t = "realEstate" -> {"type", "title", "description"}

IsPost(r, t) == r.route = "POST " \o PathOf(t)
IsPut(r, t) == r.route = "PUT " \o PathOf(t) \o "/:id"
IsRestart(r) == r.route = "restart"

\* the decimal path parameter of id n
IdParam(n) == <<Digits[n + 1]>>

\* the value a body has for a key: undefined when the key is absent
BodyKey(body, k) == IF k \in DOMAIN body THEN body[k] ELSE Undef

NoDuplicates(seq) ==
  \A i, j \in 1..Len(seq) : i # j => seq[i] # seq[j]

(***************************************************************************)
(* C1: within one process run, no two records issued by create of one type *)
(* carry the same id, also when an earlier record was deleted in between,  *)
(* and the type's next-id counter never decreases.                         *)
(***************************************************************************)
C1_IdsUniqueCounterMonotone ==
  /\ [](\A t \in TypeNames : NoDuplicates(issued[t]))
  /\ [][~IsRestart(req') =>
          \A t \in TypeNames : NextIdOf(t)' >= NextIdOf(t)]_vars

\* a second record was created after the first one was deleted
C1_Witness ==
  \E t \in TypeNames :
    /\ IsPost(req, t) /\ res.status = 201
    /\ Len(issued[t]) = 2
    /\ Len(Store(t)) = 1

(***************************************************************************)
(* C2: from an empty store with counter 1, a create request of any type    *)
(* with all required fields present (and past authentication where that is *)
(* required) returns 201 with a record whose id is k when it is the k-th   *)
(* successful create of the type, whatever was interleaved before it.      *)
(***************************************************************************)
C2_KthCreateGetsIdK ==
  \A t \in TypeNames :
    /\ \A k \in 1..Len(issued[t]) : issued[t][k] = k
    /\ (/\ IsPost(req, t)
        /\ \A f \in RequiredOf(t) : Truthy(req.body[f])
        /\ res.status # 401)
       => /\ res.status = 201
          /\ res.body[KeyOf(t)].id = Len(issued[t])

\* the second create of a type answered after a delete and a rejected create
C2_Witness ==
  /\ IsPost(req, "companies") /\ res.status = 201
  /\ res.body.company.id = 2
  /\ Len(companies) = 1

(***************************************************************************)
(* C3: in the persisted variant a restart leaves every type's listing as   *)
(* it was (same records, order and ids), and the counter it loads is above *)
(* every id issued before, also when records were deleted before.          *)
(***************************************************************************)
C3_RestartPreservesStore ==
  [][(variant = "persisted" /\ IsRestart(req')) =>
       \A t \in TypeNames :
         /\ ToJsonAll(Store(t))' = ToJsonAll(Store(t))
         /\ \A k \in 1..Len(issued[t]) : NextIdOf(t)' > issued[t][k]
         /\ NextIdOf(t)' = Len(issued[t]) + 1]_vars

\* a restart with two issued ids of a type, one of them deleted before
C3_Witness ==
  /\ variant = "persisted" /\ IsRestart(req)
  /\ \E t \in TypeNames : Len(issued[t]) = 2 /\ Len(Store(t)) = 1

(***************************************************************************)
(* C4: a PUT on an existing record leaves every field whose key is absent  *)
(* from the body at its previous value, and sets price, salary, rating and *)
(* location to the value the body carries for them, falsy values included. *)
(***************************************************************************)
C4_PutKeepsAbsentSetsFalsy ==
  [][\A t \in TypeNames :
       (IsPut(req', t) /\ res'.status = 200) =>
         LET i == FindIndex(Store(t), ParseInt(req'.id)) IN
         /\ i # 0
         /\ Len(Store(t)') = Len(Store(t))
         /\ \A k \in DOMAIN Store(t)[i] :
              /\ BodyKey(req'.body, k) = Undef
                   => Store(t)'[i][k] = Store(t)[i][k]
              /\ (/\ k \in {"price", "salary", "rating", "location"}
                  /\ BodyKey(req'.body, k) # Undef)
                   => Store(t)'[i][k] = req'.body[k]]_vars

\* a PUT carrying price 0 and no description on a classified
C4_Witness ==
  /\ IsPut(req, "classifieds") /\ res.status = 200
  /\ req.body.price = Num(0) /\ req.body.description = Undef
  /\ res.body.ad.price = Num(0) /\ res.body.ad.description = sD

(***************************************************************************)
(* C5: for every type, what GET of the id returned by a successful POST    *)
(* answers right after it is 200 with the record of the POST response.     *)
(***************************************************************************)
C5_PostThenGet ==
  \A t \in TypeNames :
    (IsPost(req, t) /\ res.status = 201) =>
      GetById(Store(t), IdParam(res.body[KeyOf(t)].id), KeyOf(t), "")
        = [status |-> 200,
           body |-> [k \in {KeyOf(t)} |-> res.body[KeyOf(t)]]]

\* a POST answered 201 for a record that is not first in its collection
C5_Witness ==
  \E t \in TypeNames :
    /\ IsPost(req, t) /\ res.status = 201
    /\ res.body[KeyOf(t)].id = 2
    /\ Len(Store(t)) = 2

\* a string of digits
IsNumeric(s) == Len(s) > 0 /\ \A i \in 1..Len(s) : IsDigit(s[i])

\* the response of a vacancy listing is in res
IsVacancyList == variant = "persisted" /\ req.route = "GET /api/vacancies"

\* the company of v contains the category asked for, if any
CategoryMatches(v, query) ==
  query.category # Undef =>
    Includes(ToLowerCase(v.company.s), ToLowerCase(query.category.s))

(***************************************************************************)
(* C6: in the persisted variant GET /api/vacancies answers with            *)
(* exactly the stored vacancies whose company contains the category        *)
(* (case-insensitively, when one is given) and whose salary is non-null    *)
(* and at least minSalary (when minSalary is given and is a number); a     *)
(* minSalary that is not a number filters nothing.                         *)
(***************************************************************************)
C6_AsStated ==
  IsVacancyList =>
    LET Given == /\ req.query.minSalary # Undef
                 /\ IsNumeric(req.query.minSalary.s)
        Keep(v) ==
          /\ CategoryMatches(v, req.query)
          /\ Given => /\ v.salary # Null
                      /\ v.salary.n >= DigitsVal(req.query.minSalary.s)
    IN /\ res.status = 200
       /\ res.body.vacancies = ToJsonAll(SelectSeq(vacancies, Keep))

IsRegister(r) == r.route = "POST /api/register"

(***************************************************************************)
(* C7: no two stored users share a username; a register request is         *)
(* answered 400 when username or password is missing, 409 when the         *)
(* username is already registered and 201 otherwise, and only the 201      *)
(* case adds a user (the one of the request).                              *)
(***************************************************************************)
C7_RegisterUniqueUsernames ==
  /\ [](\A i, j \in 1..Len(users) :
          users[i].username = users[j].username => i = j)
  /\ [][IsRegister(req') =>
          LET body == req'.body
              missing == ~Truthy(body.username) \/ ~Truthy(body.password)
              taken == \E i \in 1..Len(users) :
                         users[i].username = body.username
          IN IF missing THEN res'.status = 400 /\ users' = users
             ELSE IF taken THEN res'.status = 409 /\ users' = users
             ELSE /\ res'.status = 201
                  /\ Len(users') = Len(users) + 1
                  /\ SubSeq(users', 1, Len(users)) = users
                  /\ users'[Len(users')].username = body.username]_vars

C7_Witness ==
  IsRegister(req) /\ res.status = 409 /\ Len(users) = 2

(***************************************************************************)
(* C8, as stated: in the persisted variant POST /api/classifieds whose     *)
(* Authorization header is missing or is no token of the session table is  *)
(* answered 401, whatever the body, and leaves the collection, its counter *)
(* and its file unchanged; a create of another type with its required      *)
(* fields is answered 201 without a token.                                 *)
(***************************************************************************)
C8_AsStated ==
  [][/\ (/\ variant = "persisted" /\ IsPost(req', "classifieds")
         /\ req'.authorization \notin DOMAIN sessions)
        => /\ res'.status = 401
           /\ classifieds' = classifieds /\ nextAdId' = nextAdId
           /\ files'["classifieds.json"] = files["classifieds.json"]
     /\ \A t \in TypeNames \ {"classifieds"} :
          (IsPost(req', t) /\ \A f \in RequiredOf(t) : Truthy(req'.body[f]))
            => res'.status = 201]_vars

IsLogin(r) == r.route = "POST /api/login"

(***************************************************************************)
(* C9: in the persisted variant login is answered 200 with a token exactly *)
(* when username and password are those of a registered user, and the      *)
(* session table then maps that token to the user's username and role;     *)
(* any other login is answered 401, with no token, and adds no session.    *)
(***************************************************************************)
C9_LoginIssuesToken ==
  [][(variant = "persisted" /\ IsLogin(req')) =>
       LET body == req'.body
           Matches(i) == /\ users[i].username = body.username
                         /\ users[i].password = body.password
       IN IF \E i \in 1..Len(users) : Matches(i)
          THEN /\ res'.status = 200
               /\ "token" \in DOMAIN res'.body
               /\ res'.body.token \in DOMAIN sessions' \ DOMAIN sessions
               /\ \E i \in 1..Len(users) :
                    /\ Matches(i)
                    /\ sessions'[res'.body.token].username = users[i].username
                    /\ sessions'[res'.body.token].role = users[i].role
               /\ \A k \in DOMAIN sessions : sessions'[k] = sessions[k]
          ELSE /\ res'.status = 401
               /\ "token" \notin DOMAIN res'.body
               /\ sessions' = sessions]_vars

C9_Witness ==
  /\ variant = "persisted" /\ IsLogin(req) /\ res.status = 200
  /\ res.body.token \in DOMAIN sessions
  /\ sessions[res.body.token].username = bob
  /\ sessions[res.body.token].role = admin

\* the tokens drawn before the last restart
OldTokens == {Token(n) : n \in 1..bootCount}

(***************************************************************************)
(* C10: in the persisted variant a restart keeps the registered users, and *)
(* after it a request carrying a token issued before the restart is        *)
(* answered 401, while a login with the credentials of a registered user   *)
(* is answered 200 with a token that was not issued before the restart.    *)
(* Tokens are taken to be pairwise different.                              *)
(***************************************************************************)
C10_RestartDropsSessions ==
  /\ [][(variant = "persisted" /\ IsRestart(req')) => users' = users]_vars
  /\ [](variant = "persisted" =>
          /\ (IsPost(req, "classifieds") /\ req.authorization \in OldTokens)
               => res.status = 401
          /\ (/\ IsLogin(req)
              /\ \E i \in 1..Len(users) :
                   /\ users[i].username = req.body.username
                   /\ users[i].password = req.body.password)
               => /\ res.status = 200
                  /\ res.body.token \notin OldTokens
                  /\ res.body.token \in DOMAIN sessions)

C10_Witness ==
  /\ variant = "persisted" /\ bootCount = 1
  /\ IsLogin(req) /\ res.status = 200 /\ res.body.token = Token(2)
  /\ Token(1) \notin DOMAIN sessions /\ Len(users) = 1

(***************************************************************************)
(* The next-state relation: one request is handled at a time.              *)
(***************************************************************************)
Next ==
  \/ EndRequest
  \/ Register
  \/ Login
  \/ PostClassifieds
  \/ PostClassifiedsMemory
  \/ GetClassifieds
  \/ GetClassified
  \/ PutClassified
  \/ DeleteClassified
  \/ PostVacancies
  \/ GetVacancies
  \/ GetVacancy
  \/ PutVacancy
  \/ DeleteVacancy
  \/ PostCompanies
  \/ GetCompanies
  \/ GetCompany
  \/ PutCompany
  \/ DeleteCompany
  \/ PostRealEstate
  \/ GetRealEstate
  \/ GetProperty
  \/ PutProperty
  \/ DeleteProperty
  \/ Restart

Spec == Init /\ [][Next]_vars

(***************************************************************************)
(* The server over a data directory that stops accepting writes: from then *)
(* on fs.writeFileSync throws in saveData (a full or read-only volume, a   *)
(* file whose permissions changed).                                        *)
(***************************************************************************)
DiskFails ==
  /\ Idle
  /\ variant = "persisted"
  /\ writable
  /\ writable' = FALSE
  /\ UNCHANGED <<variant, inflight, batch, files, accountVars, adVars,
                 vacancyVars, companyVars, propertyVars, req, res, issued,
                 bootCount>>

FailNext ==
  \/ Next
  \/ DiskFails

FailSpec == Init /\ [][FailNext]_vars

(***************************************************************************)
(* Requests in flight together.  Express hands each request to its handler *)
(* in one callback; the handlers of src/server.js call nothing that        *)
(* yields (saveData uses fs.writeFileSync), so the event loop runs a       *)
(* handler to its end before it takes the callback of another request.     *)
(* Requests that arrive together are served in any order.                  *)
(***************************************************************************)
\* at most this many requests are in flight together
MaxInflight == 2

\* the requests on vacancies that can change the store
VacancyRequests ==
  {[route |-> "POST /api/vacancies", body |-> b] :
     b \in {v \in VacancyPostBodies : ~VacancyMissingFields(v)}}
  \cup {[route |-> "PUT /api/vacancies/:id", id |-> p, body |-> b] :
          p \in IdParams, b \in VacancyPutBodies}
  \cup {[route |-> "DELETE /api/vacancies/:id", id |-> p] : p \in IdParams}

\* the bag of the elements of a sequence
SeqToBag(s) ==
  [r \in {s[i] : i \in DOMAIN s} |-> Cardinality({i \in DOMAIN s : s[i] = r})]

\* the bags of one to MaxInflight requests on vacancies
Batches ==
  UNION {{SeqToBag(s) : s \in [1..k -> VacancyRequests]} :
           k \in 1..MaxInflight}

\* the number of requests among rs that create a record
Creates(rs) ==
  BagCardinality([r \in {q \in DOMAIN rs :
                           /\ q.route = "POST /api/vacancies"
                           /\ ~VacancyMissingFields(q.body)} |-> rs[r]])

\* requests on vacancies arrive together on separate connections
Arrive ==
  /\ Idle
  /\ inflight = EmptyBag
  /\ \E rs \in Batches :
         /\ Records + Creates(rs) <= MaxRecords
         /\ Created + Creates(rs) <= MaxRecords
         /\ Work + Creates(rs) <= MaxWork
         /\ inflight' = rs
         /\ batch' = [requests |-> rs,
                      before |-> [nextId |-> nextVacancyId,
                                  items |-> vacancies,
                                  file |-> files["vacancies.json"]]]
  /\ UNCHANGED <<variant, writable, files, accountVars, adVars, vacancyVars,
                 companyVars, propertyVars, req, res, issued, bootCount>>

\* the event loop runs the handler of a request in flight
HandlePost == PostVacancies /\ BagIn(req', inflight)

HandlePut == PutVacancy /\ BagIn(req', inflight)

HandleDelete == DeleteVacancy /\ BagIn(req', inflight)

\* the response is out: the request is in flight no more
Respond ==
  /\ ~Idle
  /\ BagIn(req, inflight)
  /\ inflight' = inflight (-) SetToBag({req})
  /\ req' = None
  /\ res' = None
  /\ UNCHANGED <<variant, writable, batch, files, accountVars, adVars,
                 vacancyVars, companyVars, propertyVars, issued, bootCount>>

ConcNext ==
  \/ Arrive
  \/ HandlePost
  \/ HandlePut
  \/ HandleDelete
  \/ Respond

\* the persisted server over an empty data directory
ConcInit == Init /\ variant = "persisted"

ConcSpec == ConcInit /\ [][ConcNext]_vars

(***************************************************************************)
(* Start-up over a data directory the process did not write itself: every  *)
(* file is absent, unreadable, no JSON text, the JSON text null, or a JSON *)
(* object with or without each of nextId and items.                        *)
(***************************************************************************)
\* what the items of a file hold when it has any: one stored record
SampleItems(fileName) ==
  CASE fileName = "users.json" -> <<NewUser(UserBody(alice, pw, Undef))>>
    [] fileName = "classifieds.json" ->
         ToJsonAll(<<NewAd(1, AdBody(sT, sD, sC, Num(5)), Now(1), Undef)>>)
    [] fileName = "vacancies.json" ->
         <<NewVacancy(1, VacancyBody(sT, sAcme, sD, Num(5)), Now(1))>>
    [] fileName = "companies.json" ->
         <<NewCompany(1, CompanyBody(sN, sAcme, sD, Num(5)), Now(1))>>
    [] OTHER ->
         <<NewProperty(1, PropertyBody(sHouse, sT, sD, Num(5), sL), Now(1))>>

\* the contents a file of the data directory can have at start-up
FileContents(fileName) ==
  {Missing, [t |-> "unreadable"], [t |-> "text"], [t |-> "null"],
   [t |-> "json"],
   [t |-> "json", nextId |-> 3],
   [t |-> "json", items |-> SampleItems(fileName)],
   [t |-> "json", nextId |-> 0, items |-> SampleItems(fileName)],
   [t |-> "json", nextId |-> 3, items |-> SampleItems(fileName)]}

\* the state after construction of src/server.js over such a directory
LoadInit ==
  /\ variant = "persisted"
  /\ writable = TRUE
  /\ inflight = EmptyBag
  /\ batch = NoBatch
  /\ \E u \in FileContents("users.json"),
        a \in FileContents("classifieds.json"),
        v \in FileContents("vacancies.json"),
        c \in FileContents("companies.json"),
        p \in FileContents("realEstate.json") :
       files = [f \in FileNames |->
                  CASE f = "users.json" -> u
                    [] f = "classifieds.json" -> a
                    [] f = "vacancies.json" -> v
                    [] f = "companies.json" -> c
                    [] OTHER -> p]
  /\ usersData = [nextId |-> LoadData(files, "users.json", Defaults).nextId]
  /\ users = LoadData(files, "users.json", Defaults).items
  /\ sessions = << >>
  /\ classifieds = FromJsonAds(
                     LoadData(files, "classifieds.json", Defaults).items)
  /\ nextAdId = LoadData(files, "classifieds.json", Defaults).nextId
  /\ vacancies = LoadData(files, "vacancies.json", Defaults).items
  /\ nextVacancyId = LoadData(files, "vacancies.json", Defaults).nextId
  /\ companies = LoadData(files, "companies.json", Defaults).items
  /\ nextCompanyId = LoadData(files, "companies.json", Defaults).nextId
  /\ realEstate = LoadData(files, "realEstate.json", Defaults).items
  /\ nextPropertyId = LoadData(files, "realEstate.json", Defaults).nextId
  /\ req = None
  /\ res = None
  /\ issued = [t \in TypeNames |-> << >>]
  /\ randomCount = 0
  /\ bootCount = 0

\* the process is started again and again over the same directory
LoadNext ==
  \/ Restart
  \/ EndRequest

LoadSpec == LoadInit /\ [][LoadNext]_vars

\* the file a type is loaded from
FileOf(t) ==
  CASE t = "classifieds" -> "classifieds.json"
    [] t = "vacancies" -> "vacancies.json"
    [] t = "companies" -> "companies.json"
    [] t = "realEstate" -> "realEstate.json"

\* the file holds a JSON object
IsObject(file) == file.t = "json"

(***************************************************************************)
(* C11: start-up always completes, and what loadData gave for a file is    *)
(* {nextId: 1, items: []} when the file is missing, unreadable or no JSON  *)
(* object; when the file is a JSON object, a part it lacks is replaced by  *)
(* its default and a part it has (a positive nextId, any items) is kept.   *)
(***************************************************************************)
C11_LoadDataDefaults ==
  /\ \A t \in TypeNames :
       LET file == files[FileOf(t)] IN
       /\ ~IsObject(file) => NextIdOf(t) = 1 /\ Store(t) = << >>
       /\ IsObject(file) =>
            /\ "nextId" \notin DOMAIN file => NextIdOf(t) = 1
            /\ "items" \notin DOMAIN file => Store(t) = << >>
            /\ ("nextId" \in DOMAIN file /\ file.nextId > 0)
                 => NextIdOf(t) = file.nextId
            /\ "items" \in DOMAIN file => ToJsonAll(Store(t)) = file.items
  /\ LET file == files["users.json"] IN
     /\ ~IsObject(file) => usersData.nextId = 1 /\ users = << >>
     /\ IsObject(file) =>
          /\ "nextId" \notin DOMAIN file => usersData.nextId = 1
          /\ "items" \notin DOMAIN file => users = << >>
          /\ ("nextId" \in DOMAIN file /\ file.nextId > 0)
               => usersData.nextId = file.nextId
          /\ "items" \in DOMAIN file => users = file.items

\* started over a companies file with items and no counter, next to a
\* vacancies file that is no JSON and a users file holding the text null
C11_Witness ==
  /\ IsRestart(req)
  /\ files["companies.json"] =
       [t |-> "json", items |-> SampleItems("companies.json")]
  /\ nextCompanyId = 1 /\ Len(companies) = 1
  /\ files["vacancies.json"].t = "text" /\ vacancies = << >>
  /\ files["users.json"].t = "null" /\ users = << >>
  /\ files["realEstate.json"] = [t |-> "json", nextId |-> 3]
  /\ nextPropertyId = 3 /\ realEstate = << >>

IsDelete(r, t) == r.route = "DELETE " \o PathOf(t) \o "/:id"

\* the id a create, update or delete request of type t is about: the id a
\* create is about to issue, the id in the path of an update or delete
TargetId(r, t) ==
  IF IsPost(r, t) THEN Num(NextIdOf(t)) ELSE ParseInt(r.id)

(***************************************************************************)
(* C12: for every type, a create, update or delete about id j leaves what  *)
(* GET answers for every other id i as it was before the request.          *)
(***************************************************************************)
C12_OtherIdsUntouched ==
  [][\A t \in TypeNames :
       (IsPost(req', t) \/ IsPut(req', t) \/ IsDelete(req', t)) =>
         \A i \in 1..MaxRecords :
           TargetId(req', t) # Num(i) =>
             GetById(Store(t)', IdParam(i), KeyOf(t), "")
               = GetById(Store(t), IdParam(i), KeyOf(t), "")]_vars

\* the first of two records of a type was deleted and the second is there
C12_Witness ==
  \E t \in TypeNames :
    /\ IsDelete(req, t) /\ req.id = IdParam(1) /\ res.status = 200
    /\ Len(Store(t)) = 1 /\ Store(t)[1].id = 2

\* the optional fields of the records
OptionalFields == {"price", "salary", "rating", "location"}

(***************************************************************************)
(* C13: in both variants and for every type, a record is created with each *)
(* optional field (price, salary, rating, location) as the body gave it,   *)
(* a falsy value such as 0 or "" included, and with null for an optional   *)
(* field the body left out.                                                *)
(***************************************************************************)
C13_AsStated ==
  \A t \in TypeNames :
    (IsPost(req, t) /\ res.status = 201) =>
      \A k \in OptionalFields \cap DOMAIN res.body[KeyOf(t)] :
        res.body[KeyOf(t)][k]
          = IF BodyKey(req.body, k) = Undef THEN Null ELSE req.body[k]

\* a request was handled in the step
IsRequest(r) == r.route \notin {"none", "restart"}

(***************************************************************************)
(* C14: a request answered 400, 404 or 409 leaves every collection, the    *)
(* users included, and every counter as they were and writes no file; in   *)
(* particular a create answered 400 takes no id.                           *)
(***************************************************************************)
C14_RejectionsChangeNothing ==
  [][(IsRequest(req') /\ res'.status \in {400, 404, 409}) =>
       /\ \A t \in TypeNames :
            Store(t)' = Store(t) /\ NextIdOf(t)' = NextIdOf(t)
       /\ users' = users
       /\ files' = files]_vars

\* a create was rejected after another one of its type had succeeded
C14_Witness ==
  /\ variant = "persisted"
  /\ IsPost(req, "vacancies") /\ res.status = 400
  /\ nextVacancyId = 2 /\ Len(vacancies) = 1
  /\ files["vacancies.json"].nextId = 2

(***************************************************************************)
(* C15: a PUT on an existing record sets every field the body supplies to  *)
(* the value supplied, whatever that value is and whatever the other keys  *)
(* of the body are: the required fields (title, description, category,     *)
(* company, name, type) as well as the optional ones.                      *)
(***************************************************************************)
C15_AsStated ==
  \A t \in TypeNames :
    (IsPut(req, t) /\ res.status = 200) =>
      \A k \in (RequiredOf(t) \cup OptionalFields) \cap DOMAIN req.body :
        req.body[k] # Undef => res.body[KeyOf(t)][k] = req.body[k]

\* the ids of a collection, in its order
IdsOf(coll) == [i \in 1..Len(coll) |-> coll[i].id]

(***************************************************************************)
(* C16: for every type, an update leaves the ids of the collection as they *)
(* were, also when its body has id and dateCreated keys, and in every step *)
(* a record that is still stored under its id has the dateCreated it had   *)
(* before; a record keeps the dateCreated of its creation.                 *)
(***************************************************************************)
C16_IdAndDateImmutable ==
  /\ [][\A t \in TypeNames :
          /\ IsPut(req', t) => IdsOf(Store(t)') = IdsOf(Store(t))
          /\ \A i \in DOMAIN Store(t) : \A j \in DOMAIN Store(t)' :
               Store(t)[i].id = Store(t)'[j].id
                 => Store(t)[i].dateCreated = Store(t)'[j].dateCreated]_vars
  /\ [](\A t \in TypeNames : \A i \in DOMAIN Store(t) :
          Store(t)[i].dateCreated = Now(Store(t)[i].id))

\* an update whose body carries another id and another dateCreated
C16_Witness ==
  /\ IsPut(req, "companies") /\ res.status = 200
  /\ req.body.id = Num(9) /\ req.body.dateCreated = Str(<<"T", "0">>)
  /\ req.id = IdParam(2) /\ res.body.company.id = 2
  /\ res.body.company.dateCreated = Now(2)

\* a create, update or delete of type t
IsMutation(r, t) == IsPost(r, t) \/ IsPut(r, t) \/ IsDelete(r, t)

\* what a type has in memory, as saveData would serialise it
InMemory(t) == [nextId |-> NextIdOf(t), items |-> ToJsonAll(Store(t))]

\* what loading the file of a type yields
Durable(t) == LoadData(files, FileOf(t), Defaults)

(***************************************************************************)
(* C17: in the persisted variant, with every write succeeding, loading the *)
(* file of a type yields the type's counter and collection as they are in  *)
(* memory, and loading users.json yields the users; a create, update or    *)
(* delete answered 200 or 201 leaves the type's file holding the whole     *)
(* state after the change, and a step changes a file only if it is such a  *)
(* request of the file's type, or a register answered 201 for users.json.  *)
(***************************************************************************)
C17_FileMirrorsMemory ==
  /\ [](variant = "persisted" =>
          /\ \A t \in TypeNames : Durable(t) = InMemory(t)
          /\ LoadData(files, "users.json", Defaults).items = users)
  /\ [][variant = "persisted" =>
          /\ \A t \in TypeNames :
               /\ (IsMutation(req', t) /\ res'.status \in {200, 201})
                    => files'[FileOf(t)]
                         = [t |-> "json", nextId |-> NextIdOf(t)',
                            items |-> ToJsonAll(Store(t)')]
               /\ files'[FileOf(t)] # files[FileOf(t)]
                    => IsMutation(req', t) /\ res'.status \in {200, 201}
          /\ files'["users.json"] # files["users.json"]
               => IsRegister(req') /\ res'.status = 201]_vars

\* the only classified was deleted: the file keeps the counter, no items
C17_Witness ==
  /\ variant = "persisted"
  /\ IsDelete(req, "classifieds") /\ res.status = 200
  /\ files["classifieds.json"] = [t |-> "json", nextId |-> 2, items |-> << >>]
  /\ nextAdId = 2 /\ classifieds = << >>

(***************************************************************************)
(* C18: in the persisted variant, when the write of a create, update or    *)
(* delete fails, the request is not answered 200 or 201 and the counter    *)
(* and collection in memory are what loading the file yields.              *)
(***************************************************************************)
C18_AsStated ==
  [][\A t \in TypeNames :
       (SaveThrows /\ IsMutation(req', t)
        /\ res'.status \notin {400, 401, 404})
         => /\ res'.status \notin {200, 201}
            /\ Durable(t)' = InMemory(t)']_vars

\* a request to a route of type t: listing, create, read, update, delete
IsAbout(r, t) ==
  \/ IsMutation(r, t)
  \/ r.route = "GET " \o PathOf(t)
  \/ r.route = "GET " \o PathOf(t) \o "/:id"

(***************************************************************************)
(* C19: a request to a route of one type leaves the collection, the        *)
(* counter and the file of every other type as they were, so a create of   *)
(* one type never advances the counter of another; register and login      *)
(* leave those of every type as they were.                                 *)
(***************************************************************************)
C19_TypesAreIndependent ==
  [][/\ \A t \in TypeNames :
          IsAbout(req', t) =>
            \A u \in TypeNames \ {t} :
              /\ Store(u)' = Store(u)
              /\ NextIdOf(u)' = NextIdOf(u)
              /\ files'[FileOf(u)] = files[FileOf(u)]
     /\ (IsRegister(req') \/ IsLogin(req')) =>
          \A u \in TypeNames :
            /\ Store(u)' = Store(u)
            /\ NextIdOf(u)' = NextIdOf(u)
            /\ files'[FileOf(u)] = files[FileOf(u)]]_vars

\* a first company is created next to a stored vacancy and gets id 1
C19_Witness ==
  /\ IsPost(req, "companies") /\ res.status = 201
  /\ res.body.company.id = 1 /\ nextCompanyId = 2
  /\ Len(vacancies) = 1 /\ nextVacancyId = 2

\* a is b with some elements left out, the others in the order of b
RECURSIVE IsSubsequence(_, _)
IsSubsequence(a, b) ==
  IF a = << >> THEN TRUE
  ELSE IF b = << >> THEN FALSE
  ELSE IF Head(a) = Head(b) THEN IsSubsequence(Tail(a), Tail(b))
  ELSE IsSubsequence(a, Tail(b))

IsList(r, t) == r.route = "GET " \o PathOf(t)

\* the query of a listing request carries no parameter
NoFilter(r) ==
  "query" \in DOMAIN r => \A k \in DOMAIN r.query : r.query[k] = Undef

(***************************************************************************)
(* C20: in the persisted variant every listing answers 200 with stored     *)
(* records in the order of the collection, none twice, whatever the query, *)
(* and with the whole collection when the query has no parameter; the      *)
(* companies listed are those whose category contains the category asked   *)
(* for, case-insensitively; the real-estate listed is that whose type is   *)
(* the type asked for, case-insensitively, and, for a minPrice that is a   *)
(* number, whose price is non-null and at least minPrice.                  *)
(***************************************************************************)
C20_ListingsKeepOrder ==
  variant = "persisted" =>
    /\ \A t \in TypeNames :
         IsList(req, t) =>
           /\ res.status = 200
           /\ IsSubsequence(res.body[t], ToJsonAll(Store(t)))
           /\ NoFilter(req) => res.body[t] = ToJsonAll(Store(t))
    /\ IsList(req, "companies") =>
         LET Keep(c) ==
               req.query.category # Undef =>
                 Includes(ToLowerCase(c.category.s),
                          ToLowerCase(req.query.category.s))
         IN res.body.companies = ToJsonAll(SelectSeq(companies, Keep))
    /\ (/\ IsList(req, "realEstate")
        /\ \/ req.query.minPrice = Undef
           \/ IsNumeric(req.query.minPrice.s)) =>
         LET Keep(p) ==
               /\ req.query.type # Undef =>
                    ToLowerCase(p.type.s) = ToLowerCase(req.query.type.s)
               /\ req.query.minPrice # Undef =>
                    /\ p.price # Null
                    /\ p.price.n >= DigitsVal(req.query.minPrice.s)
         IN res.body.realEstate = ToJsonAll(SelectSeq(realEstate, Keep))

\* of two stored properties the one of the type asked for, with a price,
\* is listed
C20_Witness ==
  /\ variant = "persisted" /\ IsList(req, "realEstate")
  /\ req.query = PropertyQuery(Str(<<"h", "O">>), Str(<<"0">>))
  /\ Len(realEstate) = 2 /\ Len(res.body.realEstate) = 1
  /\ res.body.realEstate[1].id = 2

IsGetOne(r, t) == r.route = "GET " \o PathOf(t) \o "/:id"

\* a request that names one record by the id in its path
IsById(r, t) == IsGetOne(r, t) \/ IsPut(r, t) \/ IsDelete(r, t)

\* the collection without the records of an id
Without(coll, id) == SelectSeq(coll, LAMBDA rec : ~IdEq(rec.id, id))

\* the ids of a type that were given to a record and are stored no more
Deleted(t) ==
  {issued[t][k] : k \in 1..Len(issued[t])}
    \ {Store(t)[i].id : i \in 1..Len(Store(t))}

(***************************************************************************)
(* C21: for every type, DELETE of an id that is stored answers 200, takes  *)
(* exactly the one record of that id out of the collection, the others     *)
(* staying in their order, and leaves the next-id counter as it was; GET,  *)
(* PUT and DELETE of an id that was deleted answer 404, and no create      *)
(* gives a record an id that was given before.                             *)
(***************************************************************************)
C21_DeletedIdStaysGone ==
  [][\A t \in TypeNames :
       /\ (/\ IsDelete(req', t)
           /\ FindIndex(Store(t), ParseInt(req'.id)) # 0) =>
            /\ res'.status = 200
            /\ Store(t)' = Without(Store(t), ParseInt(req'.id))
            /\ Len(Store(t)') = Len(Store(t)) - 1
            /\ NextIdOf(t)' = NextIdOf(t)
       /\ (/\ IsById(req', t)
           /\ ParseInt(req'.id).n \in Deleted(t)) =>
            /\ res'.status = 404
            /\ Store(t)' = Store(t)
       /\ (IsPost(req', t) /\ res'.status = 201) =>
            /\ Len(Store(t)') = Len(Store(t)) + 1
            /\ \A k \in 1..Len(issued[t]) :
                 Store(t)'[Len(Store(t)')].id # issued[t][k]]_vars

\* the first record was deleted, a second one created, and a request by
\* the id of the first is answered 404
C21_Witness ==
  \E t \in TypeNames :
    /\ IsById(req, t) /\ req.id = IdParam(1) /\ res.status = 404
    /\ issued[t] = <<1, 2>>
    /\ Len(Store(t)) = 1 /\ Store(t)[1].id = 2

\* the vacancies store: counter, collection and file
VacancyStore ==
  [nextId |-> nextVacancyId, items |-> vacancies,
   file |-> files["vacancies.json"]]

\* the file after saveData('vacancies.json', {nextId, items}) over file
Saved(file, nextId, items) ==
  IF variant = "persisted"
  THEN SaveData([f \in {"vacancies.json"} |-> file], "vacancies.json",
                [nextId |-> nextId, items |-> items])["vacancies.json"]
  ELSE file

\* the store after request r was served alone on store
Serve(store, r) ==
  IF r.route = "POST /api/vacancies"
  THEN IF VacancyMissingFields(r.body) THEN store
       ELSE LET items == Append(store.items,
                                NewVacancy(store.nextId, r.body,
                                           Now(store.nextId)))
            IN [nextId |-> store.nextId + 1, items |-> items,
                file |-> Saved(store.file, store.nextId + 1, items)]
  ELSE LET index == FindIndex(store.items, ParseInt(r.id)) IN
       IF index = 0 THEN store
       ELSE LET items ==
                  IF r.route = "PUT /api/vacancies/:id"
                  THEN [store.items EXCEPT
                          ![index] = UpdateVacancy(store.items[index], r.body)]
                  ELSE Splice(store.items, index)
            IN [nextId |-> store.nextId, items |-> items,
                file |-> Saved(store.file, store.nextId, items)]

\* serving the requests of the bag rs one after the other in some order
\* takes store to target
RECURSIVE Serializes(_, _, _)
Serializes(store, rs, target) ==
  IF rs = EmptyBag THEN store = target
  ELSE \E r \in BagToSet(rs) :
         Serializes(Serve(store, r), rs (-) SetToBag({r}), target)

\* every request of the batch has been answered
BatchDone == Idle /\ inflight = EmptyBag

(***************************************************************************)
(* C22: when all the requests on vacancies that arrived together have been *)
(* answered, the collection, the counter and the file are those that       *)
(* serving the same requests one after the other in some order leaves; if  *)
(* all of them are creates, the records created have distinct ids, all are *)
(* in the collection, and in the persisted variant the file holds that     *)
(* collection and counter.                                                 *)
(***************************************************************************)
C22_ConcurrentRequestsSerialize ==
  BatchDone =>
    /\ Serializes(batch.before, batch.requests, VacancyStore)
    /\ Creates(batch.requests) = BagCardinality(batch.requests) =>
         /\ Len(vacancies) = Len(batch.before.items) + Creates(batch.requests)
         /\ NoDuplicates(IdsOf(vacancies))
         /\ variant = "persisted" /\ batch.requests # EmptyBag =>
              /\ files["vacancies.json"].items = ToJsonAll(vacancies)
              /\ files["vacancies.json"].nextId = nextVacancyId

\* two creates arrived together and both records are stored, with ids 1, 2
C22_Witness ==
  /\ BatchDone /\ variant = "persisted"
  /\ Creates(batch.requests) = 2
  /\ IdsOf(vacancies) = <<1, 2>>
  /\ Len(files["vacancies.json"].items) = 2
  /\ vacancies[1].company # vacancies[2].company

(***************************************************************************)
(* C23: from an empty store on, in every state and for every type, the ids *)
(* of the stored records increase strictly along the collection and each   *)
(* is smaller than the next-id counter of the type, so that no id is the   *)
(* id of two stored records.                                               *)
(***************************************************************************)
C23_IdsIncreaseBelowCounter ==
  \A t \in TypeNames :
    /\ \A i, j \in 1..Len(Store(t)) :
         i < j => Store(t)[i].id < Store(t)[j].id
    /\ \A i \in 1..Len(Store(t)) : Store(t)[i].id < NextIdOf(t)
    /\ \A n \in 1..MaxRecords :
         Cardinality({i \in 1..Len(Store(t)) : IdEq(Store(t)[i].id, Num(n))})
           <= 1

\* a type holds two records, the second created after the first
C23_Witness ==
  \E t \in TypeNames :
    /\ IsPost(req, t) /\ res.status = 201
    /\ IdsOf(Store(t)) = <<1, 2>>
    /\ NextIdOf(t) = 3

\* the tokens that logins of the running process returned
RunTokens == {Token(n) : n \in (bootCount + 1)..randomCount}

(***************************************************************************)
(* C24, as stated: in the persisted variant a POST /api/classifieds that   *)
(* authenticate lets through to the handler (it is not answered 401)       *)
(* carries an Authorization header that is a token returned by a login of  *)
(* the running process.                                                    *)
(***************************************************************************)
C24_AsStated ==
  (/\ variant = "persisted"
   /\ IsPost(req, "classifieds")
   /\ res.status # 401) => req.authorization \in RunTokens

\* the owners of the stored classifieds, in collection order
Owners == [i \in 1..Len(classifieds) |-> classifieds[i].owner]

(***************************************************************************)
(* C25, as stated: in the persisted variant the classified a create        *)
(* request stores has for owner the username of a registered user, the one *)
(* a login of the running process bound to the token the request carries,  *)
(* and a PUT leaves the owner of every classified as it was.               *)
(***************************************************************************)
C25_AsStated ==
  /\ []((/\ variant = "persisted"
         /\ IsPost(req, "classifieds")
         /\ res.status = 201) =>
          /\ req.authorization \in RunTokens
          /\ req.authorization \in DOMAIN sessions
          /\ classifieds[Len(classifieds)].owner
               = sessions[req.authorization].username
          /\ \E i \in 1..Len(users) :
               users[i].username = classifieds[Len(classifieds)].owner)
  /\ [][(variant = "persisted" /\ IsPut(req', "classifieds")) =>
          Owners' = Owners]_vars
====
